---- MODULE Spec2Model ----
(***************************************************************************)
(* Model of the client-node disk monitor: client_node/disk_monitor.py      *)
(* (list_block_disks, smart_check, run) and client_node/utils.py           *)
(* (write_json_atomic).  One run of run() is a sequence of steps, one per  *)
(* external call (lsblk, smartctl, mkdtemp, open/dump/replace, ssh, scp,   *)
(* copy/remove, rmtree); the outcome of each external call is chosen by    *)
(* the environment.  The payload carries the fields the steps of run()     *)
(* change after construction (smart, notes); collected_at, host and        *)
(* disk_partitions are fixed before the first step and are left out.       *)
(***************************************************************************)
EXTENDS Integers, Sequences, FiniteSets, TLC

VARIABLES
    pc,        \* position of run()
    keep,      \* cfg.get("keep_local_copy", False)
    payload,   \* the in-memory report: [smart, notes]
    disks,     \* result of list_block_disks()
    di,        \* index of the next disk of the `for d in disks` loop
    tmpdir,    \* TRUE while the staging directory exists
    fs,        \* files of the staging directory: path -> content or NoFile
    remote,    \* the file at <remote_subdir>/ on the monitoring node
    archive,   \* the file in ~/client_node/sent_payloads
    log,       \* records written to the logger: <<level, message>>
    exc,       \* the exception leaving run(), "none" when there is none
    calls      \* external invocations made so far: [tool, result]

vars == <<pc, keep, payload, disks, di, tmpdir, fs, remote, archive, log, exc, calls>>

-----------------------------------------------------------------------------
(* Bounds of the model *)

\* lsblk prints at most MaxLines lines
MaxLines == 2

\* exit codes of lsblk, ssh and scp (the code tells 0 from the rest)
ExitCodes == { 0, 1, 255 }

-----------------------------------------------------------------------------
(* Values *)

\* a path with no file, and a file with its content (a sequence of chunks)
NoFile == [exists |-> FALSE, data |-> <<>>]
File(data) == [exists |-> TRUE, data |-> data]

\* os.path.join(tmpdir, filename)
LocalPath == <<"tmpdir", "report.json">>

\* lines lsblk -ndo NAME,TYPE can print, each already split() into its fields
LsblkLines ==
    { <<"sda", "disk">>, <<"sdb", "disk">>, <<"loop0", "loop">>, <<"sdc">>, <<>> }

\* completed runs of smartctl -H: exit code, stdout and stderr (as words)
SmartRuns ==
    { [returncode |-> 0, stderr |-> <<>>,
       stdout |-> <<"SMART", "overall-health", "self-assessment", "test", "result:", "PASSED">>],
      [returncode |-> 0, stderr |-> <<>>,
       stdout |-> <<"SMART", "Health", "Status:", "OK">>],
      [returncode |-> 4, stderr |-> <<>>,
       stdout |-> <<"SMART", "overall-health", "self-assessment", "test", "result:", "PASSED">>],
      [returncode |-> 1, stderr |-> <<"Permission", "denied">>, stdout |-> <<>>] }

\* exceptions subprocess.run can raise in smart_check, with their str()
SmartExceptions ==
    { [type |-> "FileNotFoundError", str |-> "No such file or directory: smartctl"],
      [type |-> "TimeoutExpired", str |-> "Command smartctl timed out after 20 seconds"],
      [type |-> "PermissionError", str |-> "Permission denied: smartctl"] }

BoundedSeq(S, n) == UNION { [1..k -> S] : k \in 0..n }

\* `needle in hay` for sequences of words
Contains(hay, needle) ==
    \E i \in 0..(Len(hay) - Len(needle)) :
        \A j \in 1..Len(needle) : hay[i + j] = needle[j]

-----------------------------------------------------------------------------
(* utils.write_json_atomic *)

\* variant of TmpPath: the report is written in place, at the final path
TmpPathInPlace(path) == path

\* tmp = path + ".tmp"
TmpPath(path) == path \o <<".tmp">>

Paths == { LocalPath, TmpPath(LocalPath) }

\* json.dump(data, f, indent=2): the chunks of text written, in order
Serialize(data) ==
    <<"{", "smart:">> \o [i \in DOMAIN data.smart |-> ToString(data.smart[i])]
        \o <<"notes:">> \o data.notes \o <<"}">>

-----------------------------------------------------------------------------
(* disk_monitor.list_block_disks: the parse of lsblk's stdout *)

RECURSIVE ParseLsblk(_)
ParseLsblk(lines) ==
    IF lines = <<>> THEN <<>>
    ELSE LET parts == Head(lines)
             rest == ParseLsblk(Tail(lines))
         IN IF Len(parts) = 2 /\ parts[2] = "disk"
            THEN << <<"/dev/", parts[1]>> >> \o rest
            ELSE rest

(* disk_monitor.smart_check: the result for a completed smartctl *)
SmartStatus(rc, stdout) ==
    IF rc = 0
    THEN IF \/ Contains(stdout, <<"PASSED">>)
            \/ Contains(stdout, <<"SMART", "overall-health", "self-assessment",
                                  "test", "result:", "PASSED">>)
         THEN "OK" ELSE "UNKNOWN"
    ELSE "ERROR"

SmartResult(device, res) ==
    [device |-> device, returncode |-> res.returncode, stdout |-> res.stdout,
     stderr |-> res.stderr, status |-> SmartStatus(res.returncode, res.stdout)]

(* disk_monitor.smart_check: the result when subprocess.run raises *)
SmartError(device, e) ==
    [device |-> device,
     error |-> IF e.type = "FileNotFoundError" THEN "smartctl-not-installed" ELSE e.str]

-----------------------------------------------------------------------------
Init ==
    /\ pc = "list"
    /\ keep \in BOOLEAN
    /\ payload = [smart |-> <<>>, notes |-> <<>>]
    /\ disks = <<>>
    /\ di = 1
    /\ tmpdir = FALSE
    /\ fs = [p \in Paths |-> NoFile]
    /\ remote = NoFile
    /\ archive = NoFile
    /\ log = << <<"INFO", "Starting disk monitor run">> >>
    /\ exc = "none"
    /\ calls = <<>>

\* an external call that returned (with an exit code, or "ok") or raised
Returned(tool, rc) == Append(calls, [tool |-> tool, outcome |-> "returned", returncode |-> rc])
Raised(tool, e) == Append(calls, [tool |-> tool, outcome |-> "raised", error |-> e])

(* run(): disks = list_block_disks(); lsblk is not installed, subprocess.run
   raises FileNotFoundError, which nothing catches *)
ListBlockDisksRaise ==
    /\ pc = "list"
    /\ calls' = Raised("lsblk", "FileNotFoundError")
    /\ exc' = "list_block_disks"
    /\ pc' = "raised"
    /\ UNCHANGED <<keep, payload, disks, di, tmpdir, fs, remote, archive, log>>

(* run(): disks = list_block_disks(), then `if not disks` *)
ListBlockDisks(rc, stdout) ==
    /\ pc = "list"
    /\ calls' = Returned("lsblk", rc)
    /\ disks' = IF rc = 0 THEN ParseLsblk(stdout) ELSE <<>>
    /\ IF disks' = <<>>
       THEN /\ payload' = [payload EXCEPT
                  !.notes = Append(@, "no-block-disks-found-or-lsblk-failed")]
            /\ pc' = "mkdtemp"
       ELSE /\ payload' = payload
            /\ pc' = "smart"
    /\ UNCHANGED <<keep, di, tmpdir, fs, remote, archive, log, exc>>

(* run(): one iteration of `for d in disks`, smartctl ran to completion *)
SmartCheck(res) ==
    /\ pc = "smart"
    /\ calls' = Returned("smartctl", res.returncode)
    /\ payload' = [payload EXCEPT !.smart = Append(@, SmartResult(disks[di], res))]
    /\ di' = di + 1
    /\ pc' = IF di = Len(disks) THEN "mkdtemp" ELSE "smart"
    /\ UNCHANGED <<keep, disks, tmpdir, fs, remote, archive, log, exc>>

(* run(): one iteration of `for d in disks`, subprocess.run raised *)
SmartCheckRaise(e) ==
    /\ pc = "smart"
    /\ calls' = Raised("smartctl", e.type)
    /\ payload' = [payload EXCEPT !.smart = Append(@, SmartError(disks[di], e))]
    /\ di' = di + 1
    /\ pc' = IF di = Len(disks) THEN "mkdtemp" ELSE "smart"
    /\ UNCHANGED <<keep, disks, tmpdir, fs, remote, archive, log, exc>>

(* run(): tmpdir = tempfile.mkdtemp(prefix="client_disk_") *)
Mkdtemp ==
    /\ pc = "mkdtemp"
    /\ calls' = Returned("mkdtemp", 0)
    /\ tmpdir' = TRUE
    /\ pc' = "open"
    /\ UNCHANGED <<keep, payload, disks, di, fs, remote, archive, log, exc>>

(* write_json_atomic: `with open(tmp, "w") as f` creates or truncates tmp *)
OpenTmp ==
    /\ pc = "open"
    /\ fs' = [fs EXCEPT ![TmpPath(LocalPath)] = File(<<>>)]
    /\ pc' = "dump"
    /\ UNCHANGED <<keep, payload, disks, di, tmpdir, remote, archive, log, exc, calls>>

(* write_json_atomic: open(tmp, "w") raises OSError; run() has no except
   clause, so the exception reaches the finally block *)
OpenTmpRaise ==
    /\ pc = "open"
    /\ calls' = Raised("open", "OSError")
    /\ exc' = "write_json_atomic"
    /\ pc' = "finally"
    /\ UNCHANGED <<keep, payload, disks, di, tmpdir, fs, remote, archive, log>>

(* write_json_atomic: json.dump writes the next chunk of the serialization
   to tmp; after the last chunk the with block closes the file *)
JsonDump ==
    /\ pc = "dump"
    /\ LET tmp == TmpPath(LocalPath)
           ser == Serialize(payload)
           n == Len(fs[tmp].data) + 1
       IN /\ fs' = [fs EXCEPT ![tmp] = File(Append(@.data, ser[n]))]
          /\ pc' = IF n = Len(ser) THEN "replace" ELSE "dump"
    /\ UNCHANGED <<keep, payload, disks, di, tmpdir, remote, archive, log, exc, calls>>

(* write_json_atomic: a write of json.dump raises (disk full, I/O error);
   tmp is left as it is *)
JsonDumpRaise ==
    /\ pc = "dump"
    /\ calls' = Raised("json.dump", "OSError")
    /\ exc' = "write_json_atomic"
    /\ pc' = "finally"
    /\ UNCHANGED <<keep, payload, disks, di, tmpdir, fs, remote, archive, log>>

(* write_json_atomic: os.replace(tmp, path), then run() logs "Wrote payload" *)
OsReplace ==
    /\ pc = "replace"
    /\ LET tmp == TmpPath(LocalPath)
       IN fs' = [p \in Paths |->
                    IF p = LocalPath THEN fs[tmp]
                    ELSE IF p = tmp THEN NoFile
                    ELSE fs[p]]
    /\ calls' = Returned("os.replace", 0)
    /\ log' = Append(log, <<"INFO", "Wrote payload">>)
    /\ pc' = "mkdir"
    /\ UNCHANGED <<keep, payload, disks, di, tmpdir, remote, archive, exc>>

(* variant of OsReplaceRaise: the OSError is caught and run() goes on *)
OsReplaceRaiseSwallowed ==
    /\ pc = "replace"
    /\ calls' = Raised("os.replace", "OSError")
    /\ pc' = "mkdir"
    /\ UNCHANGED <<keep, payload, disks, di, tmpdir, fs, remote, archive, log, exc>>

(* write_json_atomic: os.replace raises OSError *)
OsReplaceRaise ==
    /\ pc = "replace"
    /\ calls' = Raised("os.replace", "OSError")
    /\ exc' = "write_json_atomic"
    /\ pc' = "finally"
    /\ UNCHANGED <<keep, payload, disks, di, tmpdir, fs, remote, archive, log>>

(* variant of RemoteMkdir: the transfer is not under the else branch *)
RemoteMkdirNoSkip(rc) ==
    /\ pc = "mkdir"
    /\ calls' = Returned("ssh", rc)
    /\ IF rc # 0
       THEN /\ log' = log \o << <<"INFO", "Ensuring remote directory exists">>,
                                <<"WARNING", "Remote mkdir failed">> >>
            /\ payload' = [payload EXCEPT !.notes = Append(@, "remote_mkdir_failed")]
       ELSE /\ log' = Append(log, <<"INFO", "Ensuring remote directory exists">>)
            /\ payload' = payload
    /\ pc' = "scp"
    /\ UNCHANGED <<keep, disks, di, tmpdir, fs, remote, archive, exc>>

(* run(): mk = subprocess.run(mkdir_cmd), then `if mk.returncode != 0` *)
RemoteMkdir(rc) ==
    /\ pc = "mkdir"
    /\ calls' = Returned("ssh", rc)
    /\ IF rc # 0
       THEN /\ log' = log \o << <<"INFO", "Ensuring remote directory exists">>,
                                <<"WARNING", "Remote mkdir failed">> >>
            /\ payload' = [payload EXCEPT !.notes = Append(@, "remote_mkdir_failed")]
            /\ pc' = "retention"
       ELSE /\ log' = Append(log, <<"INFO", "Ensuring remote directory exists">>)
            /\ payload' = payload
            /\ pc' = "scp"
    /\ UNCHANGED <<keep, disks, di, tmpdir, fs, remote, archive, exc>>

(* run(): subprocess.run(mkdir_cmd) raises: ssh is not installed *)
RemoteMkdirRaise ==
    /\ pc = "mkdir"
    /\ calls' = Raised("ssh", "FileNotFoundError")
    /\ log' = Append(log, <<"INFO", "Ensuring remote directory exists">>)
    /\ exc' = "remote_mkdir"
    /\ pc' = "finally"
    /\ UNCHANGED <<keep, payload, disks, di, tmpdir, fs, remote, archive>>

(* variant of Scp: after a failed transfer the report is written again, with
   the scp_failed note *)
ScpRewrite(rc) ==
    /\ pc = "scp"
    /\ calls' = Returned("scp", rc)
    /\ IF rc # 0
       THEN /\ log' = Append(log, <<"ERROR", "SCP failed">>)
            /\ payload' = [payload EXCEPT !.notes = Append(@, "scp_failed")]
            /\ remote' = remote
            /\ fs' = [fs EXCEPT ![LocalPath] = File(Serialize(payload'))]
       ELSE /\ log' = Append(log, <<"INFO", "SCP succeeded">>)
            /\ payload' = payload
            /\ remote' = fs[LocalPath]
            /\ fs' = fs
    /\ pc' = "retention"
    /\ UNCHANGED <<keep, disks, di, tmpdir, archive, exc>>

(* run(): scp = subprocess.run(scp_cmd), then `if scp.returncode != 0` *)
Scp(rc) ==
    /\ pc = "scp"
    /\ calls' = Returned("scp", rc)
    /\ IF rc # 0
       THEN /\ log' = Append(log, <<"ERROR", "SCP failed">>)
            /\ payload' = [payload EXCEPT !.notes = Append(@, "scp_failed")]
            /\ remote' = remote
       ELSE /\ log' = Append(log, <<"INFO", "SCP succeeded">>)
            /\ payload' = payload
            /\ remote' = fs[LocalPath]
    /\ pc' = "retention"
    /\ UNCHANGED <<keep, disks, di, tmpdir, fs, archive, exc>>

(* run(): subprocess.run(scp_cmd) raises: scp is not installed *)
ScpRaise ==
    /\ pc = "scp"
    /\ calls' = Raised("scp", "FileNotFoundError")
    /\ exc' = "scp"
    /\ pc' = "finally"
    /\ UNCHANGED <<keep, payload, disks, di, tmpdir, fs, remote, archive, log>>

(* variant of ArchiveCopy: the in-memory payload is dumped into the archive
   instead of the staged file being copied *)
ArchiveCopyDump ==
    /\ pc = "retention"
    /\ keep
    /\ calls' = Returned("copy", 0)
    /\ archive' = File(Serialize(payload))
    /\ pc' = "finally"
    /\ UNCHANGED <<keep, payload, disks, di, tmpdir, fs, remote, log, exc>>

(* run(): keep_local_copy set: os.makedirs(dest_local), shutil.copy *)
ArchiveCopy ==
    /\ pc = "retention"
    /\ keep
    /\ calls' = Returned("copy", 0)
    /\ archive' = fs[LocalPath]
    /\ pc' = "finally"
    /\ UNCHANGED <<keep, payload, disks, di, tmpdir, fs, remote, log, exc>>

(* run(): keep_local_copy set: os.makedirs or shutil.copy raises OSError *)
ArchiveCopyRaise ==
    /\ pc = "retention"
    /\ keep
    /\ calls' = Raised("copy", "OSError")
    /\ exc' = "archive_copy"
    /\ pc' = "finally"
    /\ UNCHANGED <<keep, payload, disks, di, tmpdir, fs, remote, archive, log>>

(* run(): keep_local_copy unset: os.remove(local_path) *)
RemoveStaged ==
    /\ pc = "retention"
    /\ ~keep
    /\ calls' = Returned("remove", 0)
    /\ fs' = [fs EXCEPT ![LocalPath] = NoFile]
    /\ pc' = "finally"
    /\ UNCHANGED <<keep, payload, disks, di, tmpdir, remote, archive, log, exc>>

(* run(): keep_local_copy unset: os.remove raises OSError *)
RemoveStagedRaise ==
    /\ pc = "retention"
    /\ ~keep
    /\ calls' = Raised("remove", "OSError")
    /\ exc' = "remove_staged"
    /\ pc' = "finally"
    /\ UNCHANGED <<keep, payload, disks, di, tmpdir, fs, remote, archive, log>>

(* variant of Finally: the rmtree follows the try block instead of being its
   finally clause, so an exception skips it *)
FinallyNoCleanupOnRaise ==
    /\ pc = "finally"
    /\ IF exc = "none"
       THEN /\ calls' = Returned("rmtree", 0)
            /\ tmpdir' = FALSE
            /\ fs' = [p \in Paths |-> NoFile]
            /\ log' = Append(log, <<"INFO", "Run finished.">>)
            /\ pc' = "done"
       ELSE /\ UNCHANGED <<calls, tmpdir, fs, log>>
            /\ pc' = "raised"
    /\ UNCHANGED <<keep, payload, disks, di, remote, archive, exc>>

(* run(): finally: shutil.rmtree(tmpdir, ignore_errors=True); then either the
   pending exception leaves run() or "Run finished." is logged *)
Finally ==
    /\ pc = "finally"
    /\ calls' = Returned("rmtree", 0)
    /\ tmpdir' = FALSE
    /\ fs' = [p \in Paths |-> NoFile]
    /\ IF exc = "none"
       THEN /\ log' = Append(log, <<"INFO", "Run finished.">>)
            /\ pc' = "done"
       ELSE /\ log' = log
            /\ pc' = "raised"
    /\ UNCHANGED <<keep, payload, disks, di, remote, archive, exc>>

Next ==
    \/ ListBlockDisksRaise
    \/ \E rc \in ExitCodes, stdout \in BoundedSeq(LsblkLines, MaxLines) :
           ListBlockDisks(rc, stdout)
    \/ \E res \in SmartRuns : SmartCheck(res)
    \/ \E e \in SmartExceptions : SmartCheckRaise(e)
    \/ Mkdtemp
    \/ OpenTmp
    \/ OpenTmpRaise
    \/ JsonDump
    \/ JsonDumpRaise
    \/ OsReplace
    \/ OsReplaceRaise
    \/ \E rc \in ExitCodes : RemoteMkdir(rc)
    \/ RemoteMkdirRaise
    \/ \E rc \in ExitCodes : Scp(rc)
    \/ ScpRaise
    \/ ArchiveCopy
    \/ ArchiveCopyRaise
    \/ RemoveStaged
    \/ RemoveStagedRaise
    \/ Finally

Spec == Init /\ [][Next]_vars

-----------------------------------------------------------------------------
(* Vocabulary of the properties *)

Terminated == pc \in {"done", "raised"}

InSeq(x, seq) == \E i \in DOMAIN seq : seq[i] = x

Invoked(tool) == \E i \in DOMAIN calls : calls[i].tool = tool

HasReturned(tool) ==
    \E i \in DOMAIN calls : calls[i].tool = tool /\ calls[i].outcome = "returned"

HasRaised(tool) ==
    \E i \in DOMAIN calls : calls[i].tool = tool /\ calls[i].outcome = "raised"

ExitedZero(tool) ==
    \E i \in DOMAIN calls :
        /\ calls[i].tool = tool
        /\ calls[i].outcome = "returned"
        /\ calls[i].returncode = 0

ExitedNonZero(tool) ==
    \E i \in DOMAIN calls :
        /\ calls[i].tool = tool
        /\ calls[i].outcome = "returned"
        /\ calls[i].returncode # 0

LoggedAt(level) == \E i \in DOMAIN log : log[i][1] = level

DeliveryNotes == {"remote_mkdir_failed", "scp_failed"}

IsNotDeliveryNote(n) == n \notin DeliveryNotes

\* the serialization of the report with the notes known before the write
PersistedBytes ==
    File(Serialize([payload EXCEPT !.notes = SelectSeq(@, IsNotDeliveryNote)]))

WriteFailed == HasRaised("open") \/ HasRaised("json.dump") \/ HasRaised("os.replace")

\* the report was placed at its final path by write_json_atomic
ReportPersisted == HasReturned("os.replace")

HealthStatuses == {"OK", "UNKNOWN", "ERROR", "UNAVAILABLE"}

-----------------------------------------------------------------------------
(* C1: when the remote mkdir (ssh) exits non-zero, scp is never invoked in
   that run, a WARNING record is logged and remote_mkdir_failed is appended
   to the notes; scp is invoked only after ssh has returned exit code 0. *)
C1_MkdirFailureSkipsTransfer ==
    /\ ExitedNonZero("ssh") =>
          /\ ~Invoked("scp")
          /\ pc # "scp"
          /\ LoggedAt("WARNING")
          /\ InSeq("remote_mkdir_failed", payload.notes)
    /\ (Invoked("scp") \/ pc = "scp") => ExitedZero("ssh") /\ ~ExitedNonZero("ssh")

C1_Witness ==
    /\ Terminated
    /\ ExitedNonZero("ssh")
    /\ Invoked("rmtree")

(* C2: in every run that persisted the report and in which ssh or scp exited
   non-zero, run() does not raise: it ends at "Run finished." and the log and
   the notes carry a delivery-failure marker. *)
C2_DeliveryFailureNeverRaises ==
    (Terminated /\ ReportPersisted /\ (ExitedNonZero("ssh") \/ ExitedNonZero("scp"))) =>
        /\ pc = "done"
        /\ exc = "none"
        /\ InSeq(<<"INFO", "Run finished.">>, log)
        /\ LoggedAt("WARNING") \/ LoggedAt("ERROR")
        /\ \E n \in DeliveryNotes : InSeq(n, payload.notes)

(* C3: an exception leaves run() only when write_json_atomic failed; a
   failure of any other stage leaves the run completing successfully. *)
C3_OnlyPersistenceIsFatal ==
    pc = "raised" => exc = "write_json_atomic" /\ WriteFailed

(* C4: on every exit path of run() after mkdtemp, the staging directory no
   longer exists when run() terminates. *)
C4_StagingDirAlwaysRemoved ==
    (Terminated /\ Invoked("mkdtemp")) =>
        /\ tmpdir = FALSE
        /\ \A p \in Paths : fs[p] = NoFile

C4_Witness ==
    /\ pc = "raised"
    /\ exc = "archive_copy"
    /\ Invoked("mkdtemp")

(* C5: when lsblk is unavailable or exits non-zero, or lists no whole disk,
   list_block_disks returns an empty sequence without raising and the run
   goes on: the persisted report has an empty smart sequence and the
   enumeration-empty note. *)
C5_EnumerationFailureIsNotFatal ==
    /\ (HasRaised("lsblk") \/ ExitedNonZero("lsblk")) =>
          /\ exc # "list_block_disks"
          /\ pc # "raised" \/ Invoked("mkdtemp")
          /\ disks = <<>>
    /\ (Invoked("lsblk") /\ disks = <<>> /\ fs[LocalPath] # NoFile) =>
          fs[LocalPath] = File(<<"{", "smart:", "notes:",
                                 "no-block-disks-found-or-lsblk-failed", "}">>)

(* C6: every result of smart_check has a status that is one of OK, UNKNOWN,
   ERROR, UNAVAILABLE, and every UNAVAILABLE result carries a non-empty error
   description. *)
C6_ProbeResultWellFormed ==
    \A i \in DOMAIN payload.smart :
        LET r == payload.smart[i]
        IN /\ "status" \in DOMAIN r
           /\ r.status \in HealthStatuses
           /\ r.status = "UNAVAILABLE" => ("error" \in DOMAIN r /\ r.error # "")

(* C7: once the report is at its final path no later step changes its bytes:
   the staged file, the transferred file and the archived copy all hold the
   serialization with exactly the notes known before the write, whatever
   delivery notes the in-memory report has gained since. *)
C7_ImmutableAfterPersist ==
    /\ fs[LocalPath] # NoFile => fs[LocalPath] = PersistedBytes
    /\ remote # NoFile => remote = PersistedBytes
    /\ archive # NoFile => archive = PersistedBytes
    /\ \A n \in DeliveryNotes :
          InSeq(n, payload.notes) => ~InSeq(n, PersistedBytes.data)

C7_Witness ==
    /\ pc = "finally"
    /\ InSeq("scp_failed", payload.notes)
    /\ fs[LocalPath] # NoFile
    /\ archive # NoFile

(* C8: the final path never holds a partial file: it is absent or holds the
   complete serialization of the report, also while the temporary sibling is
   partly or fully written and after a failure before the rename; right after
   a completed write_json_atomic it holds exactly the serialization. *)
C8_AtomicWrite ==
    /\ fs[LocalPath] \in {NoFile, PersistedBytes}
    /\ pc \in {"open", "dump", "replace"} => fs[LocalPath] = NoFile
    /\ WriteFailed => fs[LocalPath] = NoFile
    /\ pc = "mkdir" => fs[LocalPath] = File(Serialize(payload))

C8_Witness ==
    /\ pc = "finally"
    /\ HasRaised("json.dump")
    /\ fs[TmpPath(LocalPath)].exists
    /\ Len(fs[TmpPath(LocalPath)].data) > 0
    /\ Len(fs[TmpPath(LocalPath)].data) < Len(Serialize(payload))
    /\ fs[LocalPath] = NoFile

(* C9: when open, json.dump or os.replace of write_json_atomic fails, the
   failure leaves run() as an exception: no ssh, no scp and no archive copy is
   made in that run. *)
C9_WriteFailureIsFatal ==
    WriteFailed =>
        /\ pc \in {"finally", "raised"}
        /\ exc = "write_json_atomic"
        /\ ~Invoked("ssh")
        /\ ~Invoked("scp")
        /\ ~Invoked("copy")
        /\ remote = NoFile
        /\ archive = NoFile

C9_Witness ==
    /\ pc = "raised"
    /\ HasRaised("os.replace")

(* C10, as stated: after a run that persisted its report and reached a
   delivery outcome (delivered, mkdir failed, transfer failed), with
   keep_local_copy set the archive holds a file byte-identical to the staged
   file, with it unset no local copy remains, and the staging directory is
   gone. *)
C10_RetentionFollowsKeepFlag ==
    (Terminated /\ (Invoked("copy") \/ Invoked("remove"))) =>
        /\ keep => archive = PersistedBytes /\ (remote # NoFile => archive = remote)
        /\ ~keep => archive = NoFile /\ fs[LocalPath] = NoFile
        /\ tmpdir = FALSE

(* C10, amended: the same, where with keep_local_copy set the archive holds
   the file provided os.makedirs and shutil.copy did not raise; when they
   raise the archive holds no copy. *)
C10_RetentionFollowsKeepFlagUnlessCopyFails ==
    (Terminated /\ (Invoked("copy") \/ Invoked("remove"))) =>
        /\ (keep /\ ~HasRaised("copy")) =>
              archive = PersistedBytes /\ (remote # NoFile => archive = remote)
        /\ (keep /\ HasRaised("copy")) => archive = NoFile
        /\ ~keep => archive = NoFile /\ fs[LocalPath] = NoFile
        /\ tmpdir = FALSE

C10_Witness ==
    /\ pc = "done"
    /\ keep
    /\ InSeq("remote_mkdir_failed", payload.notes)
    /\ archive # NoFile
====
